---- MODULE Spec2Model ----
(***************************************************************************)
(* WS2812 LED strip driver (src/WS2812/build.ps1, the embedded main.cpp):  *)
(* the per-byte encoder, the frame encoder, the Color Table mutators and   *)
(* the blocking transmit state machine ws2812_show, with the DMA/SPI lane  *)
(* as the external collaborator.                                           *)
(***************************************************************************)
EXTENDS Integers, Sequences, FiniteSets, TLC

(***************************************************************************)
(* Program constants.                                                      *)
(***************************************************************************)
NUM_LEDS == 8

BYTES_PER_LED == 12

SPI_BUFFER_SIZE == NUM_LEDS * BYTES_PER_LED

\* 0b1000: one high slot, three low slots
WS2812_0 == 8

\* 0b1100: two high slots, two low slots
WS2812_1 == 12

(***************************************************************************)
(* Bounds of the model.                                                    *)
(***************************************************************************)
\* number of palette colours the application may write into the Color Table
NumColours == 3

\* the count of busy polls saturates here (the loop itself is unbounded)
MaxPolls == 2

(***************************************************************************)
(* Fixed-width arithmetic.  A uint32_t is kept as two 16-bit halves        *)
(* [hi, lo] so that no intermediate value exceeds 32-bit signed integers. *)
(***************************************************************************)
\* bit n of v, n = 0 the least significant
BitOf(v, n) == (v \div (2 ^ n)) % 2

\* a & b on values below 2^16
BitAnd(a, b) ==
      BitOf(a, 0) * BitOf(b, 0)
    + 2 * BitOf(a, 1) * BitOf(b, 1)
    + 4 * BitOf(a, 2) * BitOf(b, 2)
    + 8 * BitOf(a, 3) * BitOf(b, 3)
    + 16 * BitOf(a, 4) * BitOf(b, 4)
    + 32 * BitOf(a, 5) * BitOf(b, 5)
    + 64 * BitOf(a, 6) * BitOf(b, 6)
    + 128 * BitOf(a, 7) * BitOf(b, 7)
    + 256 * BitOf(a, 8) * BitOf(b, 8)
    + 512 * BitOf(a, 9) * BitOf(b, 9)
    + 1024 * BitOf(a, 10) * BitOf(b, 10)
    + 2048 * BitOf(a, 11) * BitOf(b, 11)
    + 4096 * BitOf(a, 12) * BitOf(b, 12)
    + 8192 * BitOf(a, 13) * BitOf(b, 13)
    + 16384 * BitOf(a, 14) * BitOf(b, 14)
    + 32768 * BitOf(a, 15) * BitOf(b, 15)

\* a | b on values below 2^16
BitOr(a, b) == a + b - BitAnd(a, b)

\* uint32_t encoded = 0;
EncodedZero == [hi |-> 0, lo |-> 0]

\* variant: the accumulator is shifted by 3 (a 3-slot encoding's shift)
Shl3_32(w) ==
    [hi |-> ((w.hi * 8) % 65536) + (w.lo \div 8192),
     lo |-> (w.lo * 8) % 65536]

\* variant: the accumulator is a uint16_t, so only its low half is kept
Shl4_16(w) ==
    [hi |-> 0,
     lo |-> (w.lo * 16) % 65536]

\* encoded <<= 4 on a uint32_t: the top nibble is shifted out
Shl4_32(w) ==
    [hi |-> ((w.hi * 16) % 65536) + (w.lo \div 4096),
     lo |-> (w.lo * 16) % 65536]

\* encoded |= pattern, pattern < 2^16
Or32(w, pattern) == [hi |-> w.hi, lo |-> BitOr(w.lo, pattern)]

\* byte <<= 1 on a uint8_t
Shl1_8(byte) == (byte * 2) % 256

\* variant: the test reads the least significant bit,  if (byte & 0x01)
PatternOfLowBit(byte) == IF BitAnd(byte, 1) # 0 THEN WS2812_1 ELSE WS2812_0

\* variant: the two patterns are exchanged
PatternOfSwapped(byte) == IF BitAnd(byte, 128) # 0 THEN WS2812_0 ELSE WS2812_1

\* variant: the protocol bit itself fills the nibble, 0xF for 1 and 0x0 for 0
PatternOfRaw(byte) == IF BitAnd(byte, 128) # 0 THEN 15 ELSE 0

\* the pattern chosen by  if (byte & 0x80)
PatternOf(byte) == IF BitAnd(byte, 128) # 0 THEN WS2812_1 ELSE WS2812_0

\* one iteration of the for loop of encode_byte_to_ws2812
EncodeIter(e) ==
    [encoded |-> Or32(Shl4_32(e.encoded), PatternOf(e.byte)),
     byte    |-> Shl1_8(e.byte)]

\* variant: the accumulator is split least significant byte first
ByteOutLittleEndian(w, k) ==
    CASE k = 0 -> BitAnd(w.lo, 255)
      [] k = 1 -> BitAnd(w.lo \div 256, 255)
      [] k = 2 -> BitAnd(w.hi, 255)
      [] OTHER -> BitAnd(w.hi \div 256, 255)

\* out[k] = (encoded >> (24 - 8k)) & 0xFF, k = 0..3
ByteOut(w, k) ==
    CASE k = 0 -> BitAnd(w.hi \div 256, 255)
      [] k = 1 -> BitAnd(w.hi, 255)
      [] k = 2 -> BitAnd(w.lo \div 256, 255)
      [] OTHER -> BitAnd(w.lo, 255)

\* the four stores out[0..3] of encode_byte_to_ws2812
SplitOut(w) == [k \in 0..3 |-> ByteOut(w, k)]

\* for (int i = 0; i < 8; i++): the body runs exactly 8 times
EncodeLoop(e) ==
    EncodeIter(EncodeIter(EncodeIter(EncodeIter(
    EncodeIter(EncodeIter(EncodeIter(EncodeIter(e))))))))

\* encode_byte_to_ws2812(byte, out): the 4 bytes written to out[0..3]
encode_byte_to_ws2812(byte) ==
    SplitOut(EncodeLoop([encoded |-> EncodedZero, byte |-> byte]).encoded)

\* the byte encoder's result for every argument value, tabulated once
EncodeTable == [v \in 0..255 |-> encode_byte_to_ws2812(v)]

(***************************************************************************)
(* State.                                                                  *)
(***************************************************************************)
VARIABLES
    led_colors,     \* static ws2812_color_t led_colors[NUM_LEDS]
    spi_buffer,     \* static uint8_t spi_buffer[SPI_BUFFER_SIZE] (NOINIT section)
    pc,             \* position of the calling thread in ws2812_show
    i,              \* loop index of encode_leds_to_spi
    step,           \* which of the three encode calls of the loop body is next
    ptr,            \* write pointer of encode_leds_to_spi, as an offset into spi_buffer
    dma,            \* the DMA channel: busy flag and the transfer descriptor loaded
    wire,           \* the bytes clocked out by the last completed transfer
    polls,          \* busy polls made by the current show (saturating)
    enc,            \* the locals of one encode_byte_to_ws2812 call run on its own
    h_call_table,   \* history: led_colors as it stood when show was called
    h_dirty,        \* history: set_led_color / set_all_leds called since the last show call
    h_shown,        \* history: some show call has returned
    h_clean,        \* history: the current show follows a show with no mutator call between
    h_prev_buffer,  \* history: spi_buffer as the previous show left it (when h_clean)
    h_prev_wire,    \* history: wire as the previous show left it (when h_clean)
    h_writes,       \* history: stores to each buffer index by the current frame encoding
    h_oob,          \* history: offsets outside spi_buffer that were stored to
    h_seen_idle,    \* history: the current show's poll has read isbusy = false
    h_inflight,     \* history: transfers started and not yet completed (saturating at 2)
    h_ever_set,     \* history: set_led_color / set_all_leds has been called since startup
    h_quiet_us,     \* history: microseconds of delay since the last transfer ended
    h_call,         \* history: the last mutator call and its arguments, until the next show
    h_prev_show,    \* history: table and buffer of the previous show, while encoding
    alt_buffer,     \* spi_buffer of a second run that started from other buffer contents
    race,           \* a second thread storing to led_colors while show encodes
    agent,          \* scripts/autonomous-build-agent.sh: shell variables and position
    mon,            \* scripts/monitor-build.sh: environment, position and notifications
    blinky          \* zephyr-gpio-blinky: the two threads, their sleeps and the pins

vars == <<led_colors, spi_buffer, pc, i, step, ptr, dma, wire, polls, enc,
          h_call_table, h_dirty, h_shown, h_clean, h_prev_buffer, h_prev_wire,
          h_writes, h_oob, h_seen_idle, h_inflight, h_ever_set, h_quiet_us,
          h_call, h_prev_show, alt_buffer, race, agent, mon, blinky>>

\* the state of the two build scripts and of the blinky application
scriptVars == <<agent, mon, blinky>>

driverVars == <<led_colors, spi_buffer, pc, i, step, ptr, dma, wire, polls,
                h_call_table, h_dirty, h_shown, h_clean, h_prev_buffer, h_prev_wire,
                h_writes, h_oob, h_seen_idle, h_inflight, h_ever_set,
                h_quiet_us, h_call, h_prev_show, alt_buffer, race, scriptVars>>

LedIndex == 0..(NUM_LEDS - 1)

BufIndex == 0..(SPI_BUFFER_SIZE - 1)

Color(r, g, b) == [r |-> r, g |-> g, b |-> b]

\* variant: the table is left uninitialised (as the buffer is) and powers up
\* as all ones
UninitTable == [n \in LedIndex |-> Color(255, 255, 255)]

\* statics are zero-initialised: every LED is black at startup
BlackTable == [n \in LedIndex |-> Color(0, 0, 0)]

\* the colours the application writes: the demo's 0/255 values plus mixed ones
PaletteColour(k) ==
    CASE k = 1 -> Color(0, 0, 0)
      [] k = 2 -> Color(10, 20, 30)
      [] k = 3 -> Color(255, 0, 0)
      [] k = 4 -> Color(128, 1, 85)
      [] OTHER -> Color((k * 37) % 256, (k * 101) % 256, (k * 59) % 256)

Palette == {PaletteColour(k) : k \in 1..NumColours}

\* uint8_t index arguments tried: first, last, first out of range, largest
IndexArgs == {0, NUM_LEDS - 1, NUM_LEDS, 255}

\* the buffer is not initialised by the loader: any contents are possible
InitBuffers ==
    {[k \in BufIndex |-> 0], [k \in BufIndex |-> 255],
     [k \in BufIndex |-> (7 * k + 3) % 256]}

NoWrites == [k \in BufIndex |-> 0]

\* no earlier show to compare the one in progress with
NoPrev == [table |-> <<>>, buffer |-> <<>>]

\* no mutator has been called since the last show call
NoCall == [op |-> "none", index |-> 0, c |-> Color(0, 0, 0)]

EncIdle == [pc |-> "idle", in |-> 0, byte |-> 0, i |-> 0,
            encoded |-> EncodedZero, out |-> <<>>]

\* the encoder holds no argument copy; the second thread is between calls and
\* has made none; no table has been recorded
RaceIdle == [arg |-> 0, loaded |-> FALSE, wpc |-> 0, windex |-> 0,
             wcolor |-> Color(0, 0, 0), writes |-> 0, seen |-> {}]

\* neither script has been started
AgentOff == [pc |-> "off"]

MonOff == [pc |-> "off"]

\* the blinky application is not running
BlinkyOff == [pc |-> "off"]

DriverInit ==
    /\ led_colors = BlackTable
    /\ spi_buffer \in InitBuffers
    /\ alt_buffer \in (InitBuffers \ {spi_buffer})
    /\ pc = "idle"
    /\ i = 0
    /\ step = 0
    /\ ptr = 0
    /\ dma = [busy |-> FALSE, src |-> 0, dst |-> "none", nbytes |-> 0]
    /\ wire = <<>>
    /\ polls = 0
    /\ h_call_table = BlackTable
    /\ h_dirty = FALSE
    /\ h_shown = FALSE
    /\ h_clean = FALSE
    /\ h_prev_buffer = <<>>
    /\ h_prev_wire = <<>>
    /\ h_writes = NoWrites
    /\ h_oob = {}
    /\ h_seen_idle = FALSE
    /\ h_inflight = 0
    /\ h_ever_set = FALSE
    /\ h_quiet_us = 0
    /\ h_call = NoCall
    /\ h_prev_show = NoPrev

Init ==
    /\ DriverInit
    /\ enc = EncIdle
    /\ race = RaceIdle
    /\ agent = AgentOff
    /\ mon = MonOff
    /\ blinky = BlinkyOff

(***************************************************************************)
(* Color Table mutators.  The calling thread runs them between show calls. *)
(***************************************************************************)
\* variant: the index is reduced modulo NUM_LEDS instead of being checked
set_led_color_wrapped(table, index, r, g, b) ==
    [table EXCEPT ![index % NUM_LEDS] = Color(r, g, b)]

\* set_led_color: the guarded three field stores
set_led_color(table, index, r, g, b) ==
    IF index < NUM_LEDS
    THEN [table EXCEPT ![index] = Color(r, g, b)]
    ELSE table

\* set_all_leds: for (i = 0; i < NUM_LEDS; i++) set_led_color(i, r, g, b)
RECURSIVE set_all_leds_from(_, _, _, _, _)
set_all_leds_from(table, n, r, g, b) ==
    IF n < NUM_LEDS
    THEN set_all_leds_from(set_led_color(table, n, r, g, b), n + 1, r, g, b)
    ELSE table

set_all_leds(table, r, g, b) == set_all_leds_from(table, 0, r, g, b)

HistoryUnchanged ==
    UNCHANGED <<h_call_table, h_dirty, h_shown, h_clean, h_prev_buffer,
                h_prev_wire, h_writes, h_oob, h_seen_idle, h_inflight>>

\* variant: the mutators invalidate the encoded frame by clearing it
BufferAfterSetCleared(buf, table) == [k \in DOMAIN buf |-> 0]

\* set_led_color and set_all_leds store to led_colors[index].r/.g/.b and to
\* nothing else: spi_buffer is as it was
BufferAfterSet(buf, table) == buf

SetLedColor ==
    /\ pc = "idle"
    /\ \E index \in IndexArgs, c \in Palette :
          /\ led_colors' = set_led_color(led_colors, index, c.r, c.g, c.b)
          /\ h_call' = [op |-> "set_led_color", index |-> index, c |-> c]
    /\ spi_buffer' = BufferAfterSet(spi_buffer, led_colors')
    /\ h_dirty' = TRUE
    /\ h_ever_set' = TRUE
    /\ UNCHANGED <<alt_buffer, pc, i, step, ptr, dma, wire, polls, enc, race,
                   scriptVars, h_prev_show, h_quiet_us,
                   h_call_table, h_shown, h_clean, h_prev_buffer, h_prev_wire,
                   h_writes, h_oob, h_seen_idle, h_inflight>>

SetAllLeds ==
    /\ pc = "idle"
    /\ \E c \in Palette :
          /\ led_colors' = set_all_leds(led_colors, c.r, c.g, c.b)
          /\ h_call' = [op |-> "set_all_leds", index |-> 0, c |-> c]
    /\ spi_buffer' = BufferAfterSet(spi_buffer, led_colors')
    /\ h_dirty' = TRUE
    /\ h_ever_set' = TRUE
    /\ UNCHANGED <<alt_buffer, pc, i, step, ptr, dma, wire, polls, enc, race,
                   scriptVars, h_prev_show, h_quiet_us,
                   h_call_table, h_shown, h_clean, h_prev_buffer, h_prev_wire,
                   h_writes, h_oob, h_seen_idle, h_inflight>>

(***************************************************************************)
(* encode_leds_to_spi, one encode_byte_to_ws2812 call per step.            *)
(***************************************************************************)
\* variant: the loop stops one LED early
LoopCondShort(n) == n < NUM_LEDS - 1

\* the loop test  i < NUM_LEDS
LoopCond(n) == n < NUM_LEDS

\* variant: the channels are taken in struct order r, g, b
ChannelOfRGB(c, s) ==
    CASE s = 0 -> c.r
      [] s = 1 -> c.g
      [] OTHER -> c.b

\* the channel passed by the step-th call of the loop body: g, then r, then b
ChannelOf(c, s) ==
    CASE s = 0 -> c.g
      [] s = 1 -> c.r
      [] OTHER -> c.b

\* variant: the pointer advances by 3 (a 3-bit encoding's stride)
PtrAdvance3(p) == p + 3

\* ptr += 4
PtrAdvance(p) == p + 4

\* variant: the argument is passed by reference, so the callee's eight
\* byte <<= 1  leave the table entry's channel at 0
AfterEncodeByteByRef(table, n, s) ==
    [table EXCEPT ![n] =
        CASE s = 0 -> [@ EXCEPT !.g = 0]
          [] s = 1 -> [@ EXCEPT !.r = 0]
          [] OTHER -> [@ EXCEPT !.b = 0]]

\* the argument is a uint8_t passed by value: the callee's  byte <<= 1  works on
\* its own copy, so the table entry read is left as it was
AfterEncodeByte(table, n, s) == table

\* variant: the encoded bytes are OR-ed into what the buffer holds,  out[k] |= ...
StoreOutOr(buf, p, out) ==
    [k \in DOMAIN buf |->
        IF k \in p..(p + 3) THEN BitOr(buf[k], out[k - p]) ELSE buf[k]]

\* variant: the stores are  out[1..4] = ...,  one byte further on
StoreOutFrom1(buf, p, out) ==
    [k \in DOMAIN buf |-> IF k \in (p + 1)..(p + 4) THEN out[k - p - 1] ELSE buf[k]]

\* the stores out[0..3] = ... through the pointer p
StoreOut(buf, p, out) ==
    [k \in DOMAIN buf |-> IF k \in p..(p + 3) THEN out[k - p] ELSE buf[k]]

CountOut(writes, p) ==
    [k \in DOMAIN writes |-> IF k \in p..(p + 3) THEN writes[k] + 1 ELSE writes[k]]

\* uint8_t *ptr = spi_buffer; int i = 0
EncodeBegin ==
    /\ pc = "fill"
    /\ pc' = "encode"
    /\ i' = 0
    /\ step' = 0
    /\ ptr' = 0
    /\ h_writes' = NoWrites
    /\ UNCHANGED <<led_colors, spi_buffer, alt_buffer, dma, wire, polls, enc, race,
                   scriptVars, h_prev_show, h_call, h_quiet_us, h_ever_set,
                   h_call_table,
                   h_dirty, h_shown, h_clean, h_prev_buffer, h_prev_wire, h_oob,
                   h_seen_idle, h_inflight>>

\* encode_byte_to_ws2812(led_colors[i].<channel>, ptr); ptr += 4;
EncodeChannel ==
    /\ pc = "encode"
    /\ LoopCond(i)
    /\ LET out == EncodeTable[ChannelOf(led_colors[i], step)]
       IN  /\ spi_buffer' = StoreOut(spi_buffer, ptr, out)
           /\ alt_buffer' = StoreOut(alt_buffer, ptr, out)
           /\ h_writes' = CountOut(h_writes, ptr)
           /\ h_oob' = h_oob \cup ((ptr..(ptr + 3)) \ BufIndex)
    /\ led_colors' = AfterEncodeByte(led_colors, i, step)
    /\ ptr' = PtrAdvance(ptr)
    /\ step' = (step + 1) % 3
    /\ i' = IF step = 2 THEN i + 1 ELSE i
    /\ UNCHANGED <<pc, dma, wire, polls, enc, race, scriptVars, h_prev_show, h_call,
                   h_quiet_us,
                   h_ever_set,
                   h_call_table, h_dirty, h_shown,
                   h_clean, h_prev_buffer, h_prev_wire, h_seen_idle, h_inflight>>

\* the loop test fails: encode_leds_to_spi returns
EncodeEnd ==
    /\ pc = "encode"
    /\ ~LoopCond(i)
    /\ pc' = "start"
    /\ UNCHANGED <<led_colors, spi_buffer, alt_buffer, i, step, ptr, dma, wire,
                   polls, enc, race, scriptVars, h_prev_show, h_call, h_quiet_us,
                   h_ever_set>>
    /\ HistoryUnchanged

(***************************************************************************)
(* ws2812_show and the transmit lane.                                      *)
(***************************************************************************)
Min(a, b) == IF a < b THEN a ELSE b

\* the caller enters ws2812_show
ShowCall ==
    /\ pc = "idle"
    /\ pc' = "predelay"
    /\ h_call_table' = led_colors
    /\ h_clean' = (h_shown /\ ~h_dirty)
    /\ h_prev_buffer' = IF h_shown /\ ~h_dirty THEN spi_buffer ELSE <<>>
    /\ h_prev_wire' = IF h_shown /\ ~h_dirty THEN wire ELSE <<>>
    /\ h_dirty' = FALSE
    /\ h_seen_idle' = FALSE
    /\ h_call' = NoCall
    /\ h_prev_show' = IF h_shown THEN [table |-> h_call_table, buffer |-> spi_buffer]
                               ELSE NoPrev
    /\ UNCHANGED <<led_colors, spi_buffer, alt_buffer, i, step, ptr, dma, wire,
                   polls, enc, race, scriptVars, h_quiet_us, h_ever_set,
                   h_shown, h_writes, h_oob, h_inflight>>

\* the argument of both qcc74x_mtimer_delay_us calls of ws2812_show
RESET_DELAY_US == 100

\* variant: the delay calls are left out
DelayUsNone(us) == us

\* the delay since the last transfer ended, after one more
\* qcc74x_mtimer_delay_us(100) (counted up to three delays)
DelayUs(us) == Min(us + RESET_DELAY_US, 3 * RESET_DELAY_US)

\* qcc74x_mtimer_delay_us(100) before the frame
PreDelay ==
    /\ pc = "predelay"
    /\ pc' = "fill"
    /\ h_quiet_us' = DelayUs(h_quiet_us)
    /\ UNCHANGED <<led_colors, spi_buffer, alt_buffer, i, step, ptr, dma, wire,
                   polls, enc, race, scriptVars, h_prev_show, h_call, h_ever_set>>
    /\ HistoryUnchanged

\* variant: the byte count is the number of LEDs
TransferLedCount == [src |-> 0, dst |-> "DMA_ADDR_SPI0_TDR", nbytes |-> NUM_LEDS]

\* the descriptor built by ws2812_show: source, destination, byte count
Transfer == [src |-> 0, dst |-> "DMA_ADDR_SPI0_TDR", nbytes |-> SPI_BUFFER_SIZE]

\* qcc74x_dma_channel_lli_reload(dma0_ch0, tx_llipool, 1, &transfer, 1);
\* qcc74x_dma_channel_start(dma0_ch0);
StartTransfer ==
    /\ pc = "start"
    /\ pc' = "poll"
    /\ dma' = [busy |-> TRUE, src |-> Transfer.src, dst |-> Transfer.dst,
               nbytes |-> Transfer.nbytes]
    /\ h_inflight' = Min(h_inflight + 1, 2)
    /\ h_seen_idle' = FALSE
    /\ polls' = 0
    /\ h_prev_show' = NoPrev
    /\ UNCHANGED <<led_colors, spi_buffer, alt_buffer, i, step, ptr, wire, enc, race,
                   scriptVars, h_call, h_quiet_us, h_ever_set, h_call_table,
                   h_dirty, h_shown, h_clean, h_prev_buffer, h_prev_wire,
                   h_writes, h_oob>>

\* variant: the condition is negated,  while (!isbusy)
LoopWhileBusyInverted(busy) == ~busy

\* variant: the wait is left out
LoopWhileBusyNoWait(busy) == FALSE

\* the condition of  while (qcc74x_dma_channel_isbusy(dma0_ch0)) { }
LoopWhileBusy(busy) == busy

\* a poll that finds the channel busy: the loop goes round
PollBusy ==
    /\ pc = "poll"
    /\ LoopWhileBusy(dma.busy)
    /\ polls' = Min(polls + 1, MaxPolls)
    /\ UNCHANGED <<led_colors, spi_buffer, alt_buffer, pc, i, step, ptr, dma, wire,
                   enc, race, scriptVars, h_prev_show, h_call, h_quiet_us, h_ever_set>>
    /\ HistoryUnchanged

\* a poll that ends the loop
PollDone ==
    /\ pc = "poll"
    /\ ~LoopWhileBusy(dma.busy)
    /\ pc' = "postdelay"
    /\ h_seen_idle' = ~dma.busy
    /\ UNCHANGED <<led_colors, spi_buffer, alt_buffer, i, step, ptr, dma, wire,
                   polls, enc, race, scriptVars, h_prev_show, h_call, h_quiet_us,
                   h_ever_set,
                   h_call_table, h_dirty, h_shown, h_clean, h_prev_buffer,
                   h_prev_wire, h_writes, h_oob, h_inflight>>

\* qcc74x_mtimer_delay_us(100) after the frame, then return to the caller
PostDelay ==
    /\ pc = "postdelay"
    /\ pc' = "idle"
    /\ i' = 0
    /\ step' = 0
    /\ ptr' = 0
    /\ polls' = 0
    /\ h_shown' = TRUE
    /\ h_clean' = FALSE
    /\ h_prev_buffer' = <<>>
    /\ h_prev_wire' = <<>>
    /\ h_quiet_us' = DelayUs(h_quiet_us)
    /\ UNCHANGED <<led_colors, spi_buffer, alt_buffer, dma, wire, enc, race,
                   scriptVars, h_prev_show, h_call, h_ever_set, h_call_table, h_dirty,
                   h_writes, h_oob, h_seen_idle, h_inflight>>

\* spi_cfg.bit_order and spi_cfg.data_width as set by spi_init
SpiBitOrder == "SPI_BIT_LSB"

DataWidth == 8

\* the level of the n-th slot the lane clocks out for one 8-bit word,
\* n = 0 the first on the line
LaneSlot(byte, n) ==
    IF SpiBitOrder = "SPI_BIT_LSB"
    THEN (byte \div (2 ^ n)) % 2
    ELSE (byte \div (2 ^ (DataWidth - 1 - n))) % 2

\* the level of slot t of the pulse train of a frame, words in buffer order
\* (continuous mode: no gap between words)
TrainSlot(bytes, t) == LaneSlot(bytes[t \div DataWidth], t % DataWidth)

\* the bytes the DMA engine reads: nbytes from src, source address incrementing
DmaBytes(buf, d) ==
    [k \in 0..(d.nbytes - 1) |->
        IF (d.src + k) \in DOMAIN buf THEN buf[d.src + k] ELSE 0]

\* the lane finishes the transfer: all bytes clocked out, channel no longer busy
DmaComplete ==
    /\ dma.busy
    /\ dma' = [dma EXCEPT !.busy = FALSE]
    /\ wire' = DmaBytes(spi_buffer, dma)
    /\ h_inflight' = 0
    /\ h_quiet_us' = 0
    /\ UNCHANGED <<led_colors, spi_buffer, alt_buffer, pc, i, step, ptr, polls, enc,
                   race, scriptVars, h_prev_show, h_call, h_ever_set,
                   h_call_table, h_dirty, h_shown, h_clean, h_prev_buffer,
                   h_prev_wire, h_writes, h_oob, h_seen_idle>>

Next ==
    \/ SetLedColor
    \/ SetAllLeds
    \/ ShowCall
    \/ PreDelay
    \/ EncodeBegin
    \/ EncodeChannel
    \/ EncodeEnd
    \/ StartTransfer
    \/ PollBusy
    \/ PollDone
    \/ PostDelay
    \/ DmaComplete

Spec == Init /\ [][Next]_vars

(***************************************************************************)
(* One encode_byte_to_ws2812 call on its own, statement by statement, for  *)
(* every argument value a uint8_t can hold.                                *)
(***************************************************************************)
EncInit ==
    /\ DriverInit
    /\ \E v \in 0..255 :
          enc = [pc |-> "loop", in |-> v, byte |-> v, i |-> 0,
                 encoded |-> EncodedZero, out |-> <<>>]
    /\ race = RaceIdle
    /\ agent = AgentOff
    /\ mon = MonOff
    /\ blinky = BlinkyOff

\* one pass of  for (int i = 0; i < 8; i++) { ... }
EncIterate ==
    /\ enc.pc = "loop"
    /\ enc.i < 8
    /\ LET e == EncodeIter([encoded |-> enc.encoded, byte |-> enc.byte])
       IN  enc' = [enc EXCEPT !.encoded = e.encoded, !.byte = e.byte,
                              !.i = enc.i + 1]
    /\ UNCHANGED driverVars

\* the loop is over: out[0..3] are stored and the call returns
EncStore ==
    /\ enc.pc = "loop"
    /\ ~(enc.i < 8)
    /\ enc' = [enc EXCEPT !.out = SplitOut(enc.encoded), !.pc = "done"]
    /\ UNCHANGED driverVars

EncNext == EncIterate \/ EncStore

EncSpec == EncInit /\ [][EncNext]_vars

(***************************************************************************)
(* Properties of the byte encoder (checked under EncSpec).                 *)
(***************************************************************************)
\* the k-th nibble of a byte group, k = 0 the high nibble of out[0]
Nibble(out, k) ==
    IF k % 2 = 0 THEN out[k \div 2] \div 16 ELSE out[k \div 2] % 16

\* C1: for every channel byte v, the call stores exactly out[0..3], and the
\* k-th nibble from the high nibble of out[0] is 1100 when bit 7-k of v is 1
\* and 1000 when it is 0.
C1_NibblePerBit ==
    enc.pc = "done" =>
        /\ DOMAIN enc.out = 0..3
        /\ \A k \in 0..7 :
              Nibble(enc.out, k) = IF BitOf(enc.in, 7 - k) = 1 THEN 12 ELSE 8

\* the call on 0xA5 has returned with C8 C8 8C 8C
C1_Witness ==
    /\ enc.pc = "done"
    /\ enc.in = 165
    /\ enc.out[0] = 200 /\ enc.out[1] = 200
    /\ enc.out[2] = 140 /\ enc.out[3] = 140

\* nibble 1000 reads as protocol bit 0, nibble 1100 as protocol bit 1
DecodeNibble(n) ==
    CASE n = 8 -> 0
      [] n = 12 -> 1
      [] OTHER -> -1

RECURSIVE DecodeFromNibble(_, _, _)
DecodeFromNibble(out, k, acc) ==
    IF k > 7 THEN acc
    ELSE IF DecodeNibble(Nibble(out, k)) < 0 THEN -1
    ELSE DecodeFromNibble(out, k + 1, 2 * acc + DecodeNibble(Nibble(out, k)))

\* the byte read back from 4 encoded bytes, most significant bit first;
\* -1 when some nibble is neither pattern
DecodeGroup(out) == DecodeFromNibble(out, 0, 0)

\* C2: decoding the 4 bytes a call produced, nibble by nibble in buffer
\* order, gives back the argument; no other byte value encodes to them.
C2_RoundTrip ==
    enc.pc = "done" =>
        /\ DecodeGroup(enc.out) = enc.in
        /\ \A w \in 0..255 : EncodeTable[w] = enc.out => w = enc.in

\* the call on 0x5A has returned and its output decodes to 0x5A
C2_Witness ==
    /\ enc.pc = "done"
    /\ enc.in = 90
    /\ DecodeGroup(enc.out) = 90

(***************************************************************************)
(* Properties of the frame encoder and of ws2812_show (checked under Spec).*)
(***************************************************************************)
\* the 4 bytes of buf starting at offset p
Group(buf, p) == [k \in 0..3 |-> buf[p + k]]

\* encode_leds_to_spi has returned and the buffer has not been touched since
Filled == pc \in {"start", "poll", "postdelay"}

\* C3: after encode_leds_to_spi, for every LED n the bytes [12n, 12n+4) are
\* encode(g), [12n+4, 12n+8) are encode(r) and [12n+8, 12n+12) are encode(b).
C3_WireOrderGRB ==
    Filled =>
        \A n \in LedIndex :
            /\ Group(spi_buffer, 12 * n) = EncodeTable[led_colors[n].g]
            /\ Group(spi_buffer, 12 * n + 4) = EncodeTable[led_colors[n].r]
            /\ Group(spi_buffer, 12 * n + 8) = EncodeTable[led_colors[n].b]

\* a table with (10,20,30) first and (255,0,0) last has been encoded
C3_Witness ==
    /\ pc = "start"
    /\ led_colors[0] = Color(10, 20, 30)
    /\ led_colors[NUM_LEDS - 1] = Color(255, 0, 0)
    /\ Group(spi_buffer, 0) = EncodeTable[20]

\* C4: at every call of the byte encoder the write offset is within
\* 0 .. SPI_BUFFER_SIZE - 4, each call stores the next 4 bytes, nothing is
\* stored outside the buffer, no index is stored twice, and when the frame
\* encoder returns every index 0 .. SPI_BUFFER_SIZE - 1 was stored exactly once.
C4_WritesExact ==
    /\ h_oob = {}
    /\ \A k \in BufIndex : h_writes[k] <= 1
    /\ (pc = "encode" /\ i < NUM_LEDS) =>
          /\ 0 <= ptr /\ ptr <= SPI_BUFFER_SIZE - 4
    /\ pc = "encode" =>
          /\ ptr = 4 * (3 * i + step)
          /\ \A k \in BufIndex : h_writes[k] = (IF k < ptr THEN 1 ELSE 0)
    /\ Filled =>
          /\ ptr = SPI_BUFFER_SIZE
          /\ \A k \in BufIndex : h_writes[k] = 1

\* the frame encoder has returned after storing all 12 * NUM_LEDS bytes
C4_Witness ==
    /\ pc = "start"
    /\ ptr = 12 * NUM_LEDS
    /\ \A k \in BufIndex : h_writes[k] = 1

\* C5: show leaves its wait, and returns, only after a poll made after its
\* own start of transfer has read isbusy = false; while the lane stays busy
\* show stays in the wait.
C5_ReturnAfterCompletion ==
    /\ pc = "postdelay" => (h_seen_idle /\ ~dma.busy /\ h_inflight = 0)
    /\ pc = "idle" => (~dma.busy /\ h_inflight = 0 /\ (h_shown => h_seen_idle))
    /\ (pc = "poll" /\ dma.busy) => ~h_seen_idle

\* a show that polled a busy lane has seen the completion
C5_Witness ==
    /\ pc = "postdelay"
    /\ polls > 0
    /\ h_seen_idle
    /\ ~dma.busy

\* C6: the lane is idle whenever show is about to start a transfer, and at
\* most one transfer is in flight in every reachable state.
C6_SingleTransfer ==
    /\ h_inflight <= 1
    /\ pc = "start" => ~dma.busy
    /\ dma.busy => (pc = "poll" /\ h_inflight = 1)

\* the transfer of a later show is in flight
C6_Witness ==
    /\ h_shown
    /\ pc = "poll"
    /\ dma.busy
    /\ h_inflight = 1

(***************************************************************************)
(* The frame on the line, read with the protocol's timing classes.         *)
(***************************************************************************)
\* a pulse of one high slot is protocol bit 0, of two high slots bit 1;
\* any other pulse length is no protocol bit (2)
PulseBit(run) ==
    CASE run = 1 -> 0
      [] run = 2 -> 1
      [] OTHER -> 2

\* the slots of a train of n slots at which a pulse starts (a rising edge)
PulseStarts(bytes, n) ==
    {t \in 0..(n - 1) :
        /\ TrainSlot(bytes, t) = 1
        /\ (t = 0 \/ TrainSlot(bytes, t - 1) = 0)}

\* the number of high slots of the pulse that starts at slot t
PulseLen(bytes, n, t) ==
    CHOOSE k \in 1..(n - t) :
        /\ \A j \in 0..(k - 1) : TrainSlot(bytes, t + j) = 1
        /\ (t + k = n \/ TrainSlot(bytes, t + k) = 0)

\* the protocol bits of the pulses of a train of n slots, in line order
DecodePulses(bytes, n) ==
    LET starts == PulseStarts(bytes, n)
    IN  [q \in 1..Cardinality(starts) |->
            LET t == CHOOSE u \in starts :
                        Cardinality({v \in starts : v < u}) = q - 1
            IN  PulseBit(PulseLen(bytes, n, t))]

\* the 24 protocol bits of every LED: green, red, blue, each most
\* significant bit first
ProtocolBits(table) ==
    [q \in 1..(24 * NUM_LEDS) |->
        LET n == (q - 1) \div 24
            c == ((q - 1) % 24) \div 8
            b == 7 - ((q - 1) % 8)
        IN  BitOf(CASE c = 0 -> table[n].g
                    [] c = 1 -> table[n].r
                    [] OTHER -> table[n].b, b)]

\* C7 (as claimed): the pulse train of a transmitted frame, the lane
\* configured as spi_init configures it, decodes to the 24 protocol bits of
\* every LED's green, red and blue values, most significant bit first.
C7_LineDecodesToColours ==
    pc = "postdelay" =>
        DecodePulses(wire, DataWidth * SPI_BUFFER_SIZE)
            = ProtocolBits(h_call_table)

\* the bytes of the buffer as the byte encoder lays them out, for a table
EncodeLedsOf(table) ==
    [k \in BufIndex |->
        EncodeTable[CASE (k % 12) \div 4 = 0 -> table[k \div 12].g
                      [] (k % 12) \div 4 = 1 -> table[k \div 12].r
                      [] OTHER -> table[k \div 12].b][k % 4]]

\* C8: a show that follows a show with no set_led_color / set_all_leds call
\* between them leaves the buffer, and the bytes clocked out, exactly as the
\* earlier show left them.
C8_Idempotent ==
    (pc = "postdelay" /\ h_clean) =>
        /\ spi_buffer = h_prev_buffer
        /\ wire = h_prev_wire

\* a second show of an unchanged, non-black table has completed its transfer
C8_Witness ==
    /\ pc = "postdelay"
    /\ h_clean
    /\ led_colors[0] = Color(10, 20, 30)
    /\ spi_buffer = h_prev_buffer

\* C9: the bytes handed to the lane at the start of the transfer, and the
\* bytes clocked out, are the encoding of the Color Table as it stood when
\* show was called, whatever set / fill / show calls came before.
C9_ShowReflectsTable ==
    /\ dma.busy => DmaBytes(spi_buffer, dma) = EncodeLedsOf(h_call_table)
    /\ pc = "postdelay" => wire = EncodeLedsOf(h_call_table)
    /\ pc # "idle" => h_call_table = led_colors

\* after an earlier show, a table changed by the mutators is in flight
C9_Witness ==
    /\ h_shown
    /\ dma.busy
    /\ h_call_table[0] = Color(10, 20, 30)
    /\ h_call_table[1] = Color(255, 0, 0)
    /\ h_call_table[NUM_LEDS - 1] = Color(0, 0, 0)
    /\ DmaBytes(spi_buffer, dma) = EncodeLedsOf(h_call_table)

\* C10: an all-black Color Table encodes to a buffer whose 12 * NUM_LEDS
\* bytes are all 0x88.
C10_BlackIsAll88 ==
    (Filled /\ led_colors = BlackTable) =>
        \A k \in BufIndex : spi_buffer[k] = 136

\* a black table has been encoded over the previous frame of a non-black one
C10_Witness ==
    /\ pc = "start"
    /\ led_colors = BlackTable
    /\ h_shown
    /\ wire # EncodeLedsOf(BlackTable)
    /\ \A k \in BufIndex : spi_buffer[k] = 136

(***************************************************************************)
(* C11.  The golden vectors: a channel holding 0 is encoded as             *)
(* 88 88 88 88, a channel holding 255 as CC CC CC CC, and the segment of   *)
(* an LED coloured (r = 255, g = 0, b = 0) is                              *)
(* 88 88 88 88 CC CC CC CC 88 88 88 88.                                    *)
(***************************************************************************)
AllBytes(v) == [k \in 0..3 |-> v]

RedSegment ==
    [k \in 0..11 |-> IF k \in 4..7 THEN 204 ELSE 136]

C11_GoldenVectors ==
    Filled =>
        \A n \in LedIndex :
            /\ led_colors[n].g = 0 => Group(spi_buffer, 12 * n) = AllBytes(136)
            /\ led_colors[n].r = 0 => Group(spi_buffer, 12 * n + 4) = AllBytes(136)
            /\ led_colors[n].b = 0 => Group(spi_buffer, 12 * n + 8) = AllBytes(136)
            /\ led_colors[n].g = 255 => Group(spi_buffer, 12 * n) = AllBytes(204)
            /\ led_colors[n].r = 255 => Group(spi_buffer, 12 * n + 4) = AllBytes(204)
            /\ led_colors[n].b = 255 => Group(spi_buffer, 12 * n + 8) = AllBytes(204)
            /\ led_colors[n] = Color(255, 0, 0) =>
                  [k \in 0..11 |-> spi_buffer[12 * n + k]] = RedSegment

\* the last LED is red, the first is not, and the frame has been encoded
C11_Witness ==
    /\ pc = "start"
    /\ led_colors[NUM_LEDS - 1] = Color(255, 0, 0)
    /\ led_colors[0] = Color(10, 20, 30)
    /\ [k \in 0..11 |-> spi_buffer[12 * (NUM_LEDS - 1) + k]] = RedSegment

(***************************************************************************)
(* C12.  The encoder and ws2812_show only read the Color Table: no step    *)
(* taken inside a show call changes led_colors, and the steps of           *)
(* encode_leds_to_spi change nothing of the program's state but the        *)
(* Transmit Buffer (the lane and what it has sent are left alone).         *)
(***************************************************************************)
C12_ShowOnlyReadsTable ==
    [][/\ pc # "idle" => led_colors' = led_colors
       /\ pc \in {"fill", "encode"} => (dma' = dma /\ wire' = wire)]_vars

\* a show of a table with two coloured entries has run to its last statement
\* and the table is as the caller left it
C12_Witness ==
    /\ pc = "postdelay"
    /\ led_colors[0] = Color(10, 20, 30)
    /\ led_colors[NUM_LEDS - 1] = Color(255, 0, 0)
    /\ led_colors = h_call_table
    /\ wire = spi_buffer

(***************************************************************************)
(* C13.  A show overwrites the whole Transmit Buffer: two runs that hold   *)
(* the same Color Table but started from different buffer contents have    *)
(* identical buffers when the transfer is started, so no transmitted byte  *)
(* depends on what the buffer held before the call.  alt_buffer is the     *)
(* buffer of the second run, which starts from contents other than         *)
(* spi_buffer's and sees the same calls.                                   *)
(***************************************************************************)
C13_PriorContentsIrrelevant ==
    Filled =>
        /\ spi_buffer = alt_buffer
        /\ \A k \in BufIndex : h_writes[k] >= 1

\* the first show of the two runs, whose buffers differed in every byte
\* before it, has encoded a table of mixed values
C13_Witness ==
    /\ pc = "start"
    /\ ~h_shown
    /\ led_colors[0] = Color(10, 20, 30)
    /\ led_colors[1] = Color(0, 0, 0)
    /\ spi_buffer = alt_buffer

(***************************************************************************)
(* C14.  set_led_color and set_all_leds affect only the Color Table: a     *)
(* step of either (the only steps that begin and end outside a show call)  *)
(* leaves the Transmit Buffer, the DMA channel and the bytes on the line   *)
(* as they were, so nothing reaches the hardware before the next show.     *)
(***************************************************************************)
C14_MutatorsTouchOnlyTable ==
    [][(pc = "idle" /\ pc' = "idle") =>
          /\ spi_buffer' = spi_buffer
          /\ dma' = dma
          /\ wire' = wire
          /\ h_inflight' = h_inflight]_vars

\* after a show, an entry has been set to red: the table has changed while
\* the buffer and the line still hold the frame of the show before
C14_Witness ==
    /\ pc = "idle"
    /\ h_shown
    /\ h_dirty
    /\ led_colors[0] = Color(255, 0, 0)
    /\ led_colors # h_call_table
    /\ spi_buffer = EncodeLedsOf(h_call_table)
    /\ wire = spi_buffer
    /\ ~dma.busy

(***************************************************************************)
(* C15.  A show whose transfer never completes ends in an outcome the      *)
(* caller can tell from success.  Whatever the outcome, the call has to    *)
(* end: once show polls the lane it eventually returns.  The calling       *)
(* thread keeps running (weak fairness of its steps); nothing is assumed   *)
(* of the lane, which may never report completion.                         *)
(***************************************************************************)
\* the statements of ws2812_show, executed by the calling thread
ShowStep ==
    \/ PreDelay
    \/ EncodeBegin
    \/ EncodeChannel
    \/ EncodeEnd
    \/ StartTransfer
    \/ PollBusy
    \/ PollDone
    \/ PostDelay

\* the calling thread is never suspended for ever; the lane is not obliged
\* to finish
\* the demo's use of the driver: fill the table, show, and again
StuckLaneNext ==
    \/ SetAllLeds
    \/ ShowCall
    \/ ShowStep
    \/ DmaComplete

StuckLaneSpec == Init /\ [][StuckLaneNext]_vars /\ WF_vars(ShowStep)

C15_ShowEndsWithAnOutcome == (pc = "poll") ~> (pc = "idle")

(***************************************************************************)
(* C16.  While a transfer is in flight the calling thread writes neither   *)
(* the Transmit Buffer nor the Color Table: no step taken while the DMA    *)
(* channel is busy changes either, and every encode step and every         *)
(* set_led_color / set_all_leds step is taken while the lane is idle.      *)
(***************************************************************************)
C16_NoWriteWhileInFlight ==
    [][/\ dma.busy => (spi_buffer' = spi_buffer /\ led_colors' = led_colors)
       /\ (pc \in {"fill", "encode"} \/ (pc = "idle" /\ pc' = "idle")) =>
              ~dma.busy]_vars

\* the second show of a red-headed table is polling a busy lane, and buffer
\* and table are what the encoder left
C16_Witness ==
    /\ dma.busy
    /\ pc = "poll"
    /\ polls >= 1
    /\ h_shown
    /\ led_colors[0] = Color(255, 0, 0)
    /\ led_colors = h_call_table
    /\ spi_buffer = EncodeLedsOf(led_colors)

(***************************************************************************)
(* C18.  The Color Table is all black at startup: until set_led_color or   *)
(* set_all_leds is first called every entry is (0, 0, 0), and a show       *)
(* issued before any such call transmits the all-black frame (every byte   *)
(* 0x88).                                                                  *)
(***************************************************************************)
C18_BlackAtStartup ==
    ~h_ever_set =>
        /\ \A n \in LedIndex : led_colors[n] = Color(0, 0, 0)
        /\ dma.busy => \A k \in BufIndex : spi_buffer[k] = 136
        /\ pc = "postdelay" =>
              (DOMAIN wire = BufIndex /\ \A k \in BufIndex : wire[k] = 136)

\* the first show, with no mutator call before it, has sent its frame
C18_Witness ==
    /\ ~h_ever_set
    /\ ~h_shown
    /\ pc = "postdelay"
    /\ \A k \in BufIndex : wire[k] = 136

(***************************************************************************)
(* A show with a second thread calling set_led_color while it encodes.     *)
(* led_colors is a plain array: the encoder's argument evaluation is one   *)
(* byte load, the second thread's call is three byte stores, and loads and *)
(* stores of the two threads interleave in any order.  race holds the      *)
(* encoder's argument copy, the second thread's position in set_led_color  *)
(* and, as history, every value led_colors has had since show was called.  *)
(***************************************************************************)
\* calls of set_led_color the second thread makes during one show
MaxRaceWrites == 1

\* variant: the callee works on the table entry itself and reads it again
\* half way through, so the last four bits come from a second load
ArgValueReread(copy, mem) == ((copy \div 16) * 16) + (mem % 16)

\* the callee works on its by-value copy of the argument
ArgValue(copy, mem) == copy

ConcInit ==
    /\ Init
    /\ spi_buffer = [k \in BufIndex |-> 0]
    /\ alt_buffer = [k \in BufIndex |-> 255]

\* main's set_all_leds before the show
ConcFill == ~h_shown /\ SetAllLeds

\* the caller enters ws2812_show; the second thread is running
ConcShowCall ==
    /\ pc = "idle"
    /\ ~h_shown
    /\ pc' = "predelay"
    /\ h_call_table' = led_colors
    /\ h_dirty' = FALSE
    /\ h_seen_idle' = FALSE
    /\ race' = [race EXCEPT !.seen = {led_colors}, !.writes = 0]
    /\ h_call' = NoCall
    /\ UNCHANGED <<led_colors, spi_buffer, alt_buffer, i, step, ptr, dma, wire,
                   polls, enc, scriptVars, h_prev_show, h_quiet_us, h_ever_set,
                   h_shown, h_clean,
                   h_prev_buffer, h_prev_wire, h_writes, h_oob, h_inflight>>

\* argument evaluation of encode_byte_to_ws2812(led_colors[i].<channel>, ptr)
ConcLoad ==
    /\ pc = "encode"
    /\ LoopCond(i)
    /\ ~race.loaded
    /\ race' = [race EXCEPT !.arg = ChannelOf(led_colors[i], step),
                            !.loaded = TRUE]
    /\ UNCHANGED <<led_colors, spi_buffer, alt_buffer, pc, i, step, ptr, dma,
                   wire, polls, enc, scriptVars, h_prev_show, h_call, h_quiet_us,
                   h_ever_set>>
    /\ HistoryUnchanged

\* the body of encode_byte_to_ws2812 and  ptr += 4
ConcStore ==
    /\ pc = "encode"
    /\ race.loaded
    /\ LET out == EncodeTable[ArgValue(race.arg, ChannelOf(led_colors[i], step))]
       IN  /\ spi_buffer' = StoreOut(spi_buffer, ptr, out)
           /\ alt_buffer' = StoreOut(alt_buffer, ptr, out)
           /\ h_writes' = CountOut(h_writes, ptr)
           /\ h_oob' = h_oob \cup ((ptr..(ptr + 3)) \ BufIndex)
    /\ led_colors' = AfterEncodeByte(led_colors, i, step)
    /\ ptr' = PtrAdvance(ptr)
    /\ step' = (step + 1) % 3
    /\ i' = IF step = 2 THEN i + 1 ELSE i
    /\ race' = [race EXCEPT !.arg = 0, !.loaded = FALSE]
    /\ UNCHANGED <<pc, dma, wire, polls, enc, scriptVars, h_prev_show, h_call,
                   h_quiet_us,
                   h_ever_set,
                   h_call_table, h_dirty, h_shown, h_clean, h_prev_buffer,
                   h_prev_wire, h_seen_idle, h_inflight>>

\* show is between its entry and the start of the transfer
Encoding == pc \in {"predelay", "fill", "encode"}

\* the second thread calls set_led_color(index, r, g, b)
RaceCall ==
    /\ Encoding
    /\ race.wpc = 0
    /\ race.writes < MaxRaceWrites
    /\ \E index \in IndexArgs, c \in Palette :
          race' = [race EXCEPT !.wpc = IF index < NUM_LEDS THEN 1 ELSE 0,
                               !.windex = IF index < NUM_LEDS THEN index ELSE 0,
                               !.wcolor = IF index < NUM_LEDS THEN c
                                          ELSE Color(0, 0, 0),
                               !.writes = @ + 1]
    /\ UNCHANGED <<led_colors, spi_buffer, alt_buffer, pc, i, step, ptr, dma,
                   wire, polls, enc, scriptVars, h_prev_show, h_call, h_quiet_us,
                   h_ever_set>>
    /\ HistoryUnchanged

\* the table after the k-th store of set_led_color: .r, then .g, then .b
StoreField(table, index, c, k) ==
    CASE k = 1 -> [table EXCEPT ![index].r = c.r]
      [] k = 2 -> [table EXCEPT ![index].g = c.g]
      [] OTHER -> [table EXCEPT ![index].b = c.b]

\* one of the three stores of the second thread's call
RaceStore ==
    /\ race.wpc \in 1..3
    /\ led_colors' = StoreField(led_colors, race.windex, race.wcolor, race.wpc)
    /\ race' = [race EXCEPT !.wpc = IF race.wpc = 3 THEN 0 ELSE race.wpc + 1,
                            !.windex = IF race.wpc = 3 THEN 0 ELSE @,
                            !.wcolor = IF race.wpc = 3 THEN Color(0, 0, 0) ELSE @,
                            !.seen = IF Encoding THEN @ \cup {led_colors'} ELSE @]
    /\ h_dirty' = TRUE
    /\ h_ever_set' = TRUE
    /\ UNCHANGED <<spi_buffer, alt_buffer, pc, i, step, ptr, dma, wire, polls,
                   enc, scriptVars, h_prev_show, h_call, h_quiet_us, h_call_table,
                   h_shown, h_clean,
                   h_prev_buffer, h_prev_wire, h_writes, h_oob, h_seen_idle,
                   h_inflight>>

ConcNext ==
    \/ ConcFill
    \/ ConcShowCall
    \/ PreDelay
    \/ EncodeBegin
    \/ ConcLoad
    \/ ConcStore
    \/ EncodeEnd
    \/ StartTransfer
    \/ PollBusy
    \/ PollDone
    \/ PostDelay
    \/ DmaComplete
    \/ RaceCall
    \/ RaceStore

ConcSpec == ConcInit /\ [][ConcNext]_vars

(***************************************************************************)
(* C17.  A second thread writing Color Table entries while show encodes    *)
(* never corrupts the Transmit Buffer: in every interleaving, each 4-byte  *)
(* group of the buffer at the start of the transfer is the encoding of a   *)
(* value its channel held at some point between the call of show and the   *)
(* start of the transfer (an old or a new value, never a mixture of bits). *)
(***************************************************************************)
C17_GroupsAreHeldValues ==
    Filled =>
        \A n \in LedIndex :
            /\ \E t \in race.seen :
                  Group(spi_buffer, 12 * n) = EncodeTable[t[n].g]
            /\ \E t \in race.seen :
                  Group(spi_buffer, 12 * n + 4) = EncodeTable[t[n].r]
            /\ \E t \in race.seen :
                  Group(spi_buffer, 12 * n + 8) = EncodeTable[t[n].b]

\* the transfer is about to start on a frame that is neither the table's at
\* the call nor the table's now: the second thread's stores landed while the
\* encoder was under way, and the last LED's segment mixes old and new channels
C17_Witness ==
    /\ pc = "start"
    /\ race.writes >= 1
    /\ Cardinality(race.seen) >= 3
    /\ spi_buffer # EncodeLedsOf(h_call_table)
    /\ spi_buffer # EncodeLedsOf(led_colors)
    /\ \E t \in race.seen :
          Group(spi_buffer, 12 * (NUM_LEDS - 1)) = EncodeTable[t[NUM_LEDS - 1].g]

(***************************************************************************)
(* scripts/autonomous-build-agent.sh.  The shell variables, the tools the  *)
(* environment offers, and the position in main.  Every external command   *)
(* (west, cmake, ninja, grep, the fix functions' file writes) returns; its *)
(* result is the environment's choice.                                     *)
(***************************************************************************)
\* all the variables of the WS2812 driver model
wsVars == <<led_colors, spi_buffer, pc, i, step, ptr, dma, wire, polls, enc,
            h_call_table, h_dirty, h_shown, h_clean, h_prev_buffer, h_prev_wire,
            h_writes, h_oob, h_seen_idle, h_inflight, h_ever_set, h_quiet_us,
            h_call, h_prev_show, alt_buffer, race>>

\* the driver is not running while a script is modelled
DriverQuiet ==
    /\ DriverInit
    /\ spi_buffer = [k \in BufIndex |-> 0]
    /\ alt_buffer = [k \in BufIndex |-> 255]
    /\ enc = EncIdle
    /\ race = RaceIdle

\* MAX_ITERATIONS="${1:-5}"
DefaultMaxIterations == 5

\* the largest first argument tried
MaxIterArg == 3

\* the exit status of a pipeline is that of its last command (no pipefail)
PipelineStatus(statuses) == statuses[Len(statuses)]

\* what the greps of analyze_and_fix can find in the error context
Patterns == {"board", "devicetree", "zephyr", "cmake", "deps"}

\* the if-chain of analyze_and_fix: the first pattern that matches decides
FirstMatch(context) ==
    CASE "board" \in context -> "board"
      [] "devicetree" \in context -> "devicetree"
      [] "zephyr" \in context -> "zephyr"
      [] "cmake" \in context -> "cmake"
      [] "deps" \in context -> "deps"
      [] OTHER -> "unknown"

AgentStarted(arg, west, zdir, zbase) ==
    [pc |-> "main",
     MAX_ITERATIONS |-> IF arg = -1 THEN DefaultMaxIterations ELSE arg,
     ITERATION |-> 0,
     west |-> west,              \* command -v west succeeds
     zephyr_dir |-> zdir,        \* $HOME/zephyrproject exists
     ZEPHYR_BASE |-> zbase,      \* ZEPHYR_BASE is set and not empty
     error_context |-> {},
     exit |-> -1,                \* -1: still running
     builds |-> 0,               \* history: attempt_build calls
     fixes |-> 0,                \* history: fix functions called
     commits |-> 0,              \* history: commits made of the working tree
     unfixed |-> 0,              \* history: analyze_and_fix returned 1
     succeeded |-> FALSE,        \* history: attempt_build has returned 0
     late |-> 0,                 \* history: builds and fixes after that
     steps |-> 0]                \* history: steps taken

\* the script is started with no first argument (-1) or with one in 0..MaxIterArg
AgentInit ==
    /\ DriverQuiet
    /\ mon = MonOff
    /\ blinky = BlinkyOff
    /\ \E arg \in (-1)..MaxIterArg, west \in BOOLEAN, zdir \in BOOLEAN,
          zbase \in BOOLEAN :
          agent = AgentStarted(arg, west, zdir, zbase)

\* variant: the loop test is  -le
IterationsLeftLe(iteration, max) == iteration <= max

\* [ $ITERATION -lt $MAX_ITERATIONS ]
IterationsLeft(iteration, max) == iteration < max

Late(a) == IF a.succeeded THEN a.late + 1 ELSE a.late

\* main: the three opening notifications
AgentMain ==
    /\ agent.pc = "main"
    /\ agent' = [agent EXCEPT !.pc = "while", !.steps = @ + 1]
    /\ UNCHANGED <<wsVars, mon, blinky>>

\* while [ $ITERATION -lt $MAX_ITERATIONS ]; do ITERATION=$((ITERATION + 1))
AgentWhile ==
    /\ agent.pc = "while"
    /\ agent' =
          IF IterationsLeft(agent.ITERATION, agent.MAX_ITERATIONS)
          THEN [agent EXCEPT !.pc = "attempt_build",
                             !.ITERATION = @ + 1, !.steps = @ + 1]
          ELSE [agent EXCEPT !.pc = "failed", !.steps = @ + 1]
    /\ UNCHANGED <<wsVars, mon, blinky>>

\* attempt_build: west build when west and ZEPHYR_BASE are there, cmake and
\* ninja when that did not succeed; returns 0 iff one of them succeeded
AgentAttemptBuild ==
    /\ agent.pc = "attempt_build"
    /\ \E west_ok \in BOOLEAN, cmake_ok \in BOOLEAN :
          LET build_success ==
                  \/ (agent.west /\ agent.ZEPHYR_BASE /\ west_ok)
                  \/ cmake_ok
          IN  agent' = [agent EXCEPT
                  !.pc = IF build_success THEN "success" ELSE "extract",
                  !.builds = @ + 1,
                  !.late = Late(agent),
                  !.succeeded = @ \/ build_success,
                  !.steps = @ + 1]
    /\ UNCHANGED <<wsVars, mon, blinky>>

\* the two closing notifications and  exit 0
AgentExit0 ==
    /\ agent.pc = "success"
    /\ agent' = [agent EXCEPT !.pc = "exited", !.exit = 0, !.steps = @ + 1]
    /\ UNCHANGED <<wsVars, mon, blinky>>

\* error_context=$(extract_error_context "$BUILD_LOG"):  grep ... | head -20.
\* Under set -e a failing assignment would end the script with that status.
AgentExtract ==
    /\ agent.pc = "extract"
    /\ \E grep_status \in {0, 1, 2}, found \in SUBSET Patterns :
          LET status == PipelineStatus(<<grep_status, 0>>)
              context == IF grep_status = 0 THEN found ELSE {}
          IN  agent' =
                  IF status = 0
                  THEN [agent EXCEPT !.pc = "analyze",
                                     !.error_context = context,
                                     !.steps = @ + 1]
                  ELSE [agent EXCEPT !.pc = "exited", !.exit = status,
                                     !.steps = @ + 1]
    /\ UNCHANGED <<wsVars, mon, blinky>>

\* the commits made once a fix function has run: analyze_and_fix returns
\* straight after the fix function, and neither it, the fix functions nor main
\* runs git, so the count stays as it was
CommitsAfterFix(commits, fix) == commits

\* if ! analyze_and_fix ...: the matching fix function is called and 0 is
\* returned whatever the fix function returns (errexit is off inside an if
\* condition); with no match 1 is returned and main warns and sleeps 2
AgentAnalyzeAndFix ==
    /\ agent.pc = "analyze"
    /\ LET fix == FirstMatch(agent.error_context)
       IN  \E installed \in BOOLEAN :
              agent' = [agent EXCEPT
                  !.pc = "sleep",
                  !.fixes = IF fix = "unknown" THEN @ ELSE @ + 1,
                  !.commits = CommitsAfterFix(@, fix),
                  !.unfixed = IF fix = "unknown" THEN @ + 1 ELSE @,
                  !.late = IF fix = "unknown" THEN @ ELSE Late(agent),
                  !.ZEPHYR_BASE =
                      IF fix = "zephyr" /\ agent.zephyr_dir THEN TRUE ELSE @,
                  !.west = IF fix = "deps" /\ installed THEN TRUE ELSE @,
                  !.steps = @ + 1]
    /\ UNCHANGED <<wsVars, mon, blinky>>

\* sleep 1; done
AgentSleep ==
    /\ agent.pc = "sleep"
    /\ agent' = [agent EXCEPT !.pc = "while", !.steps = @ + 1]
    /\ UNCHANGED <<wsVars, mon, blinky>>

\* the closing notifications after the loop and  exit 1
AgentExit1 ==
    /\ agent.pc = "failed"
    /\ agent' = [agent EXCEPT !.pc = "exited", !.exit = 1, !.steps = @ + 1]
    /\ UNCHANGED <<wsVars, mon, blinky>>

AgentNext ==
    \/ AgentMain
    \/ AgentWhile
    \/ AgentAttemptBuild
    \/ AgentExit0
    \/ AgentExtract
    \/ AgentAnalyzeAndFix
    \/ AgentSleep
    \/ AgentExit1

AgentSpec == AgentInit /\ [][AgentNext]_vars

(***************************************************************************)
(* C19.  The rule-based agent runs attempt_build at most MAX_ITERATIONS    *)
(* times, exits 0 immediately after the first successful build (no build   *)
(* or fix follows it), exits 1 after MAX_ITERATIONS failed builds, and     *)
(* terminates in every case, fix or no fix: the number of steps it takes   *)
(* is bounded by 3 + 5 * MAX_ITERATIONS and it stops only by exiting.      *)
(***************************************************************************)
C19_BoundedRetries ==
    /\ agent.builds <= agent.MAX_ITERATIONS
    /\ agent.builds = agent.ITERATION \/ agent.pc = "attempt_build"
    /\ agent.late = 0
    /\ agent.succeeded => agent.pc \in {"success", "exited"}
    /\ agent.exit \in {-1, 0, 1}
    /\ agent.exit = 0 <=> (agent.pc = "exited" /\ agent.succeeded)
    /\ agent.exit = 1 <=> (/\ agent.pc = "exited"
                           /\ ~agent.succeeded
                           /\ agent.builds = agent.MAX_ITERATIONS)
    /\ agent.steps <= 3 + 5 * agent.MAX_ITERATIONS
    /\ agent.pc # "exited" => ENABLED AgentNext

\* three builds failed, one after a fix and one after no fix was found, and
\* the agent has exited with status 1
C19_Witness ==
    /\ agent.pc = "exited"
    /\ agent.exit = 1
    /\ agent.MAX_ITERATIONS = 3
    /\ agent.builds = 3
    /\ agent.fixes >= 1
    /\ agent.unfixed >= 1

(***************************************************************************)
(* scripts/monitor-build.sh, statement by statement.  mon holds what the   *)
(* environment offers (the Zephyr tree, a webhook, a binary left in the    *)
(* build directory), the position in the script, the status tags written   *)
(* to the log by notify, and how many of them curl delivered.              *)
(***************************************************************************)
\* exit statuses west build can return: success, build error, command not found
WestStatuses == {0, 1, 127}

MonStarted(zdir, webhook, bin) ==
    [pc |-> "l56",
     zephyr_dir |-> zdir,        \* $HOME/zephyrproject is a directory
     webhook |-> webhook,        \* a webhook URL was given as $1
     bin |-> bin,                \* build/zephyr/zephyr.bin exists after the build
     west |-> -1,                \* exit status of west build; -1: not run
     notes |-> <<>>,             \* status tags notify has logged
     posted |-> 0,               \* notifications curl delivered
     exit |-> -1]                \* -1: still running

MonInit ==
    /\ DriverQuiet
    /\ agent = AgentOff
    /\ blinky = BlinkyOff
    /\ \E zdir \in BOOLEAN, webhook \in BOOLEAN, bin \in BOOLEAN :
          mon = MonStarted(zdir, webhook, bin)

\* notify: echo ... | tee -a "$LOG_FILE", then curl ... || true when a
\* webhook is set (delivered says whether curl got through)
Notify(m, status, delivered) ==
    [m EXCEPT !.notes = Append(@, status),
              !.posted = IF m.webhook /\ delivered THEN @ + 1 ELSE @]

\* notify "Monitor script started (PID: $$)" "INFO"
MonNotifyStarted ==
    /\ mon.pc = "l56"
    /\ \E d \in BOOLEAN : mon' = [Notify(mon, "INFO", d) EXCEPT !.pc = "l57"]
    /\ UNCHANGED <<wsVars, agent, blinky>>

\* notify "Log file: $LOG_FILE" "INFO"
MonNotifyLog ==
    /\ mon.pc = "l57"
    /\ \E d \in BOOLEAN : mon' = [Notify(mon, "INFO", d) EXCEPT !.pc = "l27"]
    /\ UNCHANGED <<wsVars, agent, blinky>>

\* if build_project:  notify "Starting autonomous build process" "START"; cd
MonBuildProject ==
    /\ mon.pc = "l27"
    /\ \E d \in BOOLEAN : mon' = [Notify(mon, "START", d) EXCEPT !.pc = "l31"]
    /\ UNCHANGED <<wsVars, agent, blinky>>

\* if [ ! -d "$HOME/zephyrproject" ]: WARNING and return 1; else export
MonZephyrTest ==
    /\ mon.pc = "l31"
    /\ \E d \in BOOLEAN :
          mon' = IF ~mon.zephyr_dir
                 THEN [Notify(mon, "WARNING", d) EXCEPT !.pc = "l63"]
                 ELSE [mon EXCEPT !.pc = "l38"]
    /\ UNCHANGED <<wsVars, agent, blinky>>

\* notify "Building Zephyr GPIO blinky..." "BUILD"
MonNotifyBuild ==
    /\ mon.pc = "l38"
    /\ \E d \in BOOLEAN : mon' = [Notify(mon, "BUILD", d) EXCEPT !.pc = "l40"]
    /\ UNCHANGED <<wsVars, agent, blinky>>

\* if west build -b qcc748m -p auto 2>&1 | tee -a "$LOG_FILE"; then
\*     notify "Build successful!" "SUCCESS"
\* else notify "Build failed! ..." "ERROR"; return 1
\* The if tests the pipeline's status; tee appends to the log and returns 0.
MonWestBuild ==
    /\ mon.pc = "l40"
    /\ \E west_status \in WestStatuses, d \in BOOLEAN :
          LET ran == [mon EXCEPT !.west = west_status]
          IN  mon' = IF PipelineStatus(<<west_status, 0>>) = 0
                     THEN [Notify(ran, "SUCCESS", d) EXCEPT !.pc = "l43"]
                     ELSE [Notify(ran, "ERROR", d) EXCEPT !.pc = "l63"]
    /\ UNCHANGED <<wsVars, agent, blinky>>

\* if [ -f "build/zephyr/zephyr.bin" ]: notify the size; return 0
MonBinary ==
    /\ mon.pc = "l43"
    /\ \E d \in BOOLEAN :
          mon' = IF mon.bin
                 THEN [Notify(mon, "INFO", d) EXCEPT !.pc = "l60"]
                 ELSE [mon EXCEPT !.pc = "l60"]
    /\ UNCHANGED <<wsVars, agent, blinky>>

\* notify "All tasks completed successfully!" "COMPLETE"; exit 0
MonExit0 ==
    /\ mon.pc = "l60"
    /\ \E d \in BOOLEAN :
          mon' = [Notify(mon, "COMPLETE", d) EXCEPT !.pc = "exited", !.exit = 0]
    /\ UNCHANGED <<wsVars, agent, blinky>>

\* notify "Some tasks failed" "FAILED"; exit 1
MonExit1 ==
    /\ mon.pc = "l63"
    /\ \E d \in BOOLEAN :
          mon' = [Notify(mon, "FAILED", d) EXCEPT !.pc = "exited", !.exit = 1]
    /\ UNCHANGED <<wsVars, agent, blinky>>

MonNext ==
    \/ MonNotifyStarted
    \/ MonNotifyLog
    \/ MonBuildProject
    \/ MonZephyrTest
    \/ MonNotifyBuild
    \/ MonWestBuild
    \/ MonBinary
    \/ MonExit0
    \/ MonExit1

MonSpec == MonInit /\ [][MonNext]_vars

(***************************************************************************)
(* C20.  The basic monitor reports the build outcome: it runs the build at *)
(* most once, and once it has exited it has logged SUCCESS and COMPLETE    *)
(* and exited 0 if and only if west build returned 0; when west build      *)
(* failed it has logged ERROR and FAILED and exited 1, and when Zephyr is  *)
(* not installed it has logged FAILED and exited 1.                        *)
(***************************************************************************)
Logged(status) == \E k \in 1..Len(mon.notes) : mon.notes[k] = status

C20_MonitorReportsOutcome ==
    mon.pc = "exited" =>
        /\ mon.exit = 0 <=> mon.west = 0
        /\ (Logged("SUCCESS") /\ Logged("COMPLETE")) <=> mon.west = 0
        /\ mon.west \notin {-1, 0} =>
              (mon.exit = 1 /\ Logged("ERROR") /\ Logged("FAILED"))
        /\ ~mon.zephyr_dir => (mon.exit = 1 /\ Logged("FAILED"))

(***************************************************************************)
(* C21.  Every automatic fix applied after a failed build is committed     *)
(* before the next build attempt: whenever the agent is about to run       *)
(* attempt_build, as many commits have been made as fixes were applied.    *)
(***************************************************************************)
C21_FixCommittedBeforeRetry ==
    agent.pc = "attempt_build" => agent.commits = agent.fixes

(***************************************************************************)
(* zephyr-gpio-blinky/src/main.c.  Two threads of equal priority, started  *)
(* together by K_THREAD_DEFINE, each configuring its pin and then looping  *)
(* over  gpio_pin_toggle_dt; k_msleep.  Time is counted in ticks; a sleep  *)
(* ends exactly when its duration has passed and a thread that is ready    *)
(* runs before time moves on (no lateness, no drift).  When both threads   *)
(* are ready the scheduler runs either first.                              *)
(***************************************************************************)
\* k_msleep(500) in thread0_entry, k_msleep(250) in thread1_entry
SLEEP0_MS == 500

SLEEP1_MS == 250

\* ticks counted during thread 1's sleep
Ticks1 == 5

\* ticks during thread 0's sleep, at the same tick length
Ticks0 == (SLEEP0_MS * Ticks1) \div SLEEP1_MS

\* K_THREAD_DEFINE(..., 0, 0): both threads are ready at time 0
BlinkyStarted ==
    [t0 |-> [pc |-> "configure", rem |-> 0],
     t1 |-> [pc |-> "configure", rem |-> 0],
     pin0 |-> 0,                 \* level of led0 (GPIO14)
     pin1 |-> 0,                 \* level of led1 (GPIO15)
     toggles0 |-> 0,             \* history: led0 toggles (saturating at 2)
     since |-> 0,                \* history: led1 toggles since the last led0 toggle
     gap |-> -1]                 \* history: led1 toggles between the last two
                                 \* led0 toggles; -1 before the second

BlinkyInit ==
    /\ DriverQuiet
    /\ agent = AgentOff
    /\ mon = MonOff
    /\ blinky = BlinkyStarted

\* return values of gpio_pin_configure_dt tried: success and -EIO
ConfigureResults == {0, -5}

\* ret = gpio_pin_configure_dt(&led0, GPIO_OUTPUT_ACTIVE); if (ret < 0) return;
Thread0Configure ==
    /\ blinky.t0.pc = "configure"
    /\ \E ret \in ConfigureResults :
          blinky' = IF ret < 0
                    THEN [blinky EXCEPT !.t0.pc = "returned"]
                    ELSE [blinky EXCEPT !.t0.pc = "toggle", !.pin0 = 1]
    /\ UNCHANGED <<wsVars, agent, mon>>

\* gpio_pin_toggle_dt(&led0); k_msleep(500);
Thread0Toggle ==
    /\ blinky.t0.pc = "toggle"
    /\ blinky' = [blinky EXCEPT
          !.pin0 = 1 - @,
          !.t0 = [pc |-> "sleep", rem |-> Ticks0],
          !.gap = IF blinky.toggles0 > 0 THEN blinky.since ELSE -1,
          !.since = 0,
          !.toggles0 = Min(@ + 1, 2)]
    /\ UNCHANGED <<wsVars, agent, mon>>

\* ret = gpio_pin_configure_dt(&led1, GPIO_OUTPUT_ACTIVE); if (ret < 0) return;
Thread1Configure ==
    /\ blinky.t1.pc = "configure"
    /\ \E ret \in ConfigureResults :
          blinky' = IF ret < 0
                    THEN [blinky EXCEPT !.t1.pc = "returned"]
                    ELSE [blinky EXCEPT !.t1.pc = "toggle", !.pin1 = 1]
    /\ UNCHANGED <<wsVars, agent, mon>>

\* gpio_pin_toggle_dt(&led1); k_msleep(250);
Thread1Toggle ==
    /\ blinky.t1.pc = "toggle"
    /\ blinky' = [blinky EXCEPT
          !.pin1 = 1 - @,
          !.t1 = [pc |-> "sleep", rem |-> Ticks1],
          !.since = Min(@ + 1, 4)]
    /\ UNCHANGED <<wsVars, agent, mon>>

\* a sleeping thread after one more tick: ready again when its sleep is over
AfterTick(t) ==
    IF t.pc # "sleep" THEN t
    ELSE IF t.rem = 1 THEN [pc |-> "toggle", rem |-> 0]
    ELSE [pc |-> "sleep", rem |-> t.rem - 1]

\* no thread is ready and one at least sleeps: the idle thread runs for a tick
BlinkyTick ==
    /\ blinky.t0.pc \in {"sleep", "returned"}
    /\ blinky.t1.pc \in {"sleep", "returned"}
    /\ "sleep" \in {blinky.t0.pc, blinky.t1.pc}
    /\ blinky' = [blinky EXCEPT !.t0 = AfterTick(@), !.t1 = AfterTick(@)]
    /\ UNCHANGED <<wsVars, agent, mon>>

BlinkyNext ==
    \/ Thread0Configure
    \/ Thread0Toggle
    \/ Thread1Configure
    \/ Thread1Toggle
    \/ BlinkyTick

BlinkySpec == BlinkyInit /\ [][BlinkyNext]_vars

(***************************************************************************)
(* C22.  With both threads running from a common start, GPIO15 toggles     *)
(* exactly twice for each GPIO14 toggle: between any two consecutive       *)
(* GPIO14 toggles there are exactly two GPIO15 toggles, whichever of the   *)
(* two equal-priority threads the scheduler runs first.                    *)
(***************************************************************************)
C22_TwoTogglesPerToggle ==
    (blinky.t0.pc # "returned" /\ blinky.t1.pc # "returned") =>
        blinky.gap \in {-1, 2}

(***************************************************************************)
(* C23.  Every ws2812_show call passes through its phases in this order,   *)
(* none skipped or repeated: pre-delay, Filling, start of transfer,        *)
(* Transmitting, PostDelay, back to Idle.  Encoding is complete when the   *)
(* transfer is about to start, and PostDelay is entered only when the lane *)
(* has reported completion.                                                *)
(***************************************************************************)
PhaseSteps ==
    {<<"idle", "predelay">>, <<"predelay", "fill">>, <<"fill", "encode">>,
     <<"encode", "start">>, <<"start", "poll">>, <<"poll", "postdelay">>,
     <<"postdelay", "idle">>}

C23_PhaseOrder ==
    [][/\ pc' # pc => <<pc, pc'>> \in PhaseSteps
       /\ (pc # "start" /\ pc' = "start") =>
              (i = NUM_LEDS /\ \A k \in BufIndex : h_writes[k] >= 1)
       /\ (pc # "poll" /\ pc' = "poll") => dma'.busy
       /\ (pc # "postdelay" /\ pc' = "postdelay") =>
              (~dma.busy /\ h_inflight = 0)]_vars

\* a show of a changed table has gone through all its phases and returned
C23_Witness ==
    /\ pc = "idle"
    /\ h_shown
    /\ ~h_dirty
    /\ h_seen_idle
    /\ led_colors[1] = Color(10, 20, 30)
    /\ wire = EncodeLedsOf(led_colors)

(***************************************************************************)
(* C24.  With a fair lane (every started transfer is eventually reported   *)
(* not busy) and a calling thread that keeps running, every ws2812_show    *)
(* call eventually returns and the transmitter is Idle again; the Filling  *)
(* step always runs to its end, and each of its steps can be taken         *)
(* whatever the lane does.                                                 *)
(***************************************************************************)
\* the lane finishes every transfer it was given
FairLaneSpec ==
    Init /\ [][StuckLaneNext]_vars /\ WF_vars(ShowStep) /\ WF_vars(DmaComplete)

C24_ShowReturns ==
    /\ (pc # "idle") ~> (pc = "idle" /\ ~dma.busy)
    /\ (pc = "fill") ~> (pc = "start")
    /\ [](pc \in {"fill", "encode"} => ENABLED <<ShowStep>>_vars)

\* the second show of a red table has waited for a busy lane and seen it finish
C24_Witness ==
    /\ pc = "postdelay"
    /\ h_shown
    /\ polls >= 1
    /\ ~dma.busy
    /\ led_colors[0] = Color(255, 0, 0)
    /\ wire = EncodeLedsOf(led_colors)

(***************************************************************************)
(* C25.  Every transfer started by ws2812_show is described to the lane as *)
(* source = start of the Transmit Buffer, destination = the lane's data    *)
(* register, byte count = SPI_BUFFER_SIZE = 12 * NUM_LEDS, in a single     *)
(* transfer: the whole frame and nothing beyond the buffer is sent.        *)
(***************************************************************************)
C25_TransferDescriptor ==
    /\ dma.busy =>
          /\ dma.src = 0
          /\ dma.dst = "DMA_ADDR_SPI0_TDR"
          /\ dma.nbytes = 12 * NUM_LEDS
          /\ dma.nbytes = SPI_BUFFER_SIZE
          /\ \A k \in 0..(dma.nbytes - 1) : (dma.src + k) \in DOMAIN spi_buffer
          /\ h_inflight = 1
    /\ pc = "postdelay" =>
          (DOMAIN wire = DOMAIN spi_buffer /\ wire = spi_buffer)

\* the transfer of a later show, whose last LED is coloured, is in flight
C25_Witness ==
    /\ dma.busy
    /\ h_shown
    /\ dma.nbytes = 96
    /\ led_colors[NUM_LEDS - 1] = Color(10, 20, 30)
    /\ spi_buffer[SPI_BUFFER_SIZE - 1] = 200

(***************************************************************************)
(* C26.  Between the end of one frame's transfer and the start of the next *)
(* frame's there are at least two reset delays, the post-delay of the      *)
(* earlier show and the pre-delay of the later one (200 us), for any       *)
(* sequence of show calls; no transfer is started without one reset delay  *)
(* (100 us, more than the 50 us the LEDs need) since the previous transfer *)
(* ended or since startup.                                                 *)
(***************************************************************************)
C26_TwoResetDelays ==
    pc \in {"fill", "encode", "start"} =>
        /\ h_quiet_us >= 100
        /\ h_shown => h_quiet_us >= 200

\* a later show is about to start its transfer, two delays after the
\* previous transfer ended
C26_Witness ==
    /\ pc = "start"
    /\ h_shown
    /\ h_quiet_us = 200
    /\ ~dma.busy
    /\ led_colors[0] = Color(10, 20, 30)

\* ---------------------------------------------------------------------------
\* C27: a set_led_color call whose index is NUM_LEDS or more changes nothing:
\* the Color Table, the Transmit Buffer, the lane and the wire are as before;
\* a call with an index below NUM_LEDS replaces exactly entry [index] by
\* (r, g, b) and leaves every other entry as it was; set_all_leds(r, g, b)
\* leaves every entry equal to (r, g, b).
SameDomain(table) == DOMAIN table = LedIndex

C27_MutatorEffect ==
    [][(pc = "idle" /\ pc' = "idle" /\ h_call'.op # "none") =>
          /\ SameDomain(led_colors')
          /\ dma' = dma /\ wire' = wire /\ h_oob' = h_oob
          /\ h_call'.op = "set_led_color" =>
                IF h_call'.index >= NUM_LEDS
                THEN led_colors' = led_colors /\ spi_buffer' = spi_buffer
                ELSE /\ led_colors'[h_call'.index] = h_call'.c
                     /\ \A n \in LedIndex \ {h_call'.index} :
                            led_colors'[n] = led_colors[n]
          /\ h_call'.op = "set_all_leds" =>
                \A n \in LedIndex : led_colors'[n] = h_call'.c]_vars

C27_Witness ==
    /\ h_call.op = "set_led_color"
    /\ h_call.index >= NUM_LEDS
    /\ h_call.c = Color(10, 20, 30)
    /\ led_colors[0] = Color(10, 20, 30)
    /\ led_colors[1] = Color(0, 0, 0)
    /\ h_shown

\* ---------------------------------------------------------------------------
\* C28: after any ws2812_show, and from the end of its encoding on, every byte
\* of the Transmit Buffer is one of 0x88, 0x8C, 0xC8, 0xCC: in each nibble the
\* top bit is 1 and the two low bits are 0, so no byte is 0x00 or 0xFF.
SymbolBytes == {136, 140, 200, 204}

\* bit 3 of a nibble is n \div 8, its bits 1..0 are n % 4
NibbleIsSymbol(n) == n \div 8 = 1 /\ n % 4 = 0

C28_BytesAreSymbols ==
    /\ (h_shown \/ Filled) =>
          \A k \in BufIndex :
              /\ spi_buffer[k] \in SymbolBytes
              /\ NibbleIsSymbol(spi_buffer[k] \div 16)
              /\ NibbleIsSymbol(spi_buffer[k] % 16)
              /\ spi_buffer[k] \notin {0, 255}
    /\ pc = "encode" =>
          \A k \in BufIndex : h_writes[k] >= 1 => spi_buffer[k] \in SymbolBytes

C28_Witness ==
    /\ pc = "idle"
    /\ h_shown
    /\ ~h_dirty
    /\ {spi_buffer[k] : k \in BufIndex} = SymbolBytes

\* ---------------------------------------------------------------------------
\* C29: locality of encoding.  Comparing the buffer a show has just encoded
\* with the buffer and table of the show before it: a channel of an LED whose
\* value is the same in both tables has the same 4-byte group in both buffers,
\* so segment [12n, 12n+12) depends on entry n only; when the tables differ
\* only at entry n the buffers agree outside [12n, 12n+12); and when they
\* differ in one channel of one LED only that channel's group differs.
Channels == 0..2

GroupStart(n, s) == BYTES_PER_LED * n + 4 * s

ChangedChannels(old, new) ==
    {<<n, s>> \in LedIndex \X Channels : ChannelOf(old[n], s) # ChannelOf(new[n], s)}

ChangedGroups(old, new) ==
    {<<n, s>> \in LedIndex \X Channels :
        Group(old, GroupStart(n, s)) # Group(new, GroupStart(n, s))}

ChangedBytes(old, new) == {k \in BufIndex : old[k] # new[k]}

C29_EncodingIsLocal ==
    (pc = "start" /\ h_prev_show # NoPrev) =>
        /\ ChangedGroups(h_prev_show.buffer, spi_buffer)
              = ChangedChannels(h_prev_show.table, led_colors)
        /\ \A n \in LedIndex :
              (\A m \in LedIndex \ {n} : h_prev_show.table[m] = led_colors[m]) =>
                  ChangedBytes(h_prev_show.buffer, spi_buffer)
                      \subseteq (BYTES_PER_LED * n)..(BYTES_PER_LED * n + 11)
        /\ \A n \in LedIndex, s \in Channels :
              ChangedChannels(h_prev_show.table, led_colors) = {<<n, s>>} =>
                  /\ ChangedBytes(h_prev_show.buffer, spi_buffer)
                        \subseteq GroupStart(n, s)..(GroupStart(n, s) + 3)
                  /\ ChangedBytes(h_prev_show.buffer, spi_buffer) # {}

C29_Witness ==
    /\ pc = "start"
    /\ h_prev_show # NoPrev
    /\ h_prev_show.table[NUM_LEDS - 1] = Color(0, 0, 0)
    /\ led_colors[NUM_LEDS - 1] = Color(255, 0, 0)
    /\ led_colors[0] = Color(10, 20, 30)
    /\ ChangedChannels(h_prev_show.table, led_colors) = {<<NUM_LEDS - 1, 1>>}
    /\ ChangedBytes(h_prev_show.buffer, spi_buffer) =
          GroupStart(NUM_LEDS - 1, 1)..(GroupStart(NUM_LEDS - 1, 1) + 3)

\* ---------------------------------------------------------------------------
\* C30: the fixed-width arithmetic of encode_byte_to_ws2812 is exact.  Before
\* each of the 8 shifts the accumulator's top nibble is 0, so no set bit is
\* shifted out; after k iterations its low k nibbles are pattern_0 ..
\* pattern_(k-1) and the rest is 0, so the final value is the sum of
\* pattern_k * 16^(7-k), below 2^32 and determined by the input; the 8-bit
\* working byte is the input shifted left k times modulo 256, and its bit at
\* mask 0x80 in iteration k is bit (7-k) of the input.
Pow16(k) ==
    CASE k = 0 -> 1
      [] k = 1 -> 16
      [] k = 2 -> 256
      [] OTHER -> 4096

Pow2(k) ==
    CASE k = 0 -> 1 [] k = 1 -> 2 [] k = 2 -> 4 [] k = 3 -> 8 [] k = 4 -> 16
      [] k = 5 -> 32 [] k = 6 -> 64 [] k = 7 -> 128 [] OTHER -> 256

\* nibble j of a 32-bit word, j = 0 the most significant
Nibble32(w, j) ==
    IF j < 4 THEN (w.hi \div Pow16(3 - j)) % 16
             ELSE (w.lo \div Pow16(7 - j)) % 16

\* the pattern of input bit (7 - k), i.e. the one or-ed in by iteration k
PatternK(in, k) == IF BitOf(in, 7 - k) = 1 THEN WS2812_1 ELSE WS2812_0

C30_ArithmeticIsExact ==
    enc.pc \in {"loop", "done"} =>
        /\ enc.encoded.hi \in 0..65535 /\ enc.encoded.lo \in 0..65535
        /\ enc.i < 8 => enc.encoded.hi < 4096
        /\ \A j \in 0..7 :
              Nibble32(enc.encoded, j) =
                  IF j < 8 - enc.i THEN 0 ELSE PatternK(enc.in, j - (8 - enc.i))
        /\ enc.byte = (enc.in * Pow2(enc.i)) % 256
        /\ enc.i < 8 => (BitAnd(enc.byte, 128) # 0 <=> BitOf(enc.in, 7 - enc.i) = 1)
        /\ enc.pc = "done" => enc.i = 8

\* the call on 0xFF has returned: the accumulator is 0xCCCCCCCC, all 32 bits
\* in use, and the working byte has been shifted to 0
C30_Witness ==
    /\ enc.pc = "done"
    /\ enc.in = 255
    /\ enc.i = 8
    /\ enc.encoded = [hi |-> 52428, lo |-> 52428]
    /\ enc.byte = 0

====
